---- MODULE Spec2Model ----
(***************************************************************************)
(* Model of the playground command handlers of the bot                     *)
(* (src/src/playground.rs) and of its moderation commands                  *)
(* (src/src/moderation.rs).  Text is modelled by TLA+ strings; a position  *)
(* in a string is 0-based, as in the source, and an absent position (Rust  *)
(* `None`) is NoPos.  A backquote of the source's literals is written as an *)
(* apostrophe, the strings of TLA+ having no backquote.                    *)
(***************************************************************************)
EXTENDS Integers, Sequences, FiniteSets, TLC

VARIABLES pc, call, ret, effects

vars == <<pc, call, ret, effects>>

(***************************************************************************)
(* Bounds of the model.                                                    *)
(***************************************************************************)
\* longest tool output handed to extract_relevant_lines, in characters
MaxTextLen == 7
\* most lines of a user snippet
MaxLines == 4
\* most lines of a raw tool output handed to format_play_eval_stderr
MaxOutputLines == 3

(***************************************************************************)
(* str primitives of the standard library, as the source uses them.        *)
(***************************************************************************)
NoPos == -1

NL == "\n"

\* s[a..b]
Slice(s, a, b) == SubSeq(s, a + 1, b)

\* s[a..]
SliceFrom(s, a) == SubSeq(s, a + 1, Len(s))

\* s[a..].starts_with(t)
StartsAt(s, t, a) == a + Len(t) <= Len(s) /\ Slice(s, a, a + Len(t)) = t

starts_with(s, t) == StartsAt(s, t, 0)

ends_with(s, t) == Len(t) <= Len(s) /\ StartsAt(s, t, Len(s) - Len(t))

\* the least and the greatest of a set of positions that is not empty
Least(S) == CHOOSE m \in S : \A n \in S : m <= n

Greatest(S) == CHOOSE m \in S : \A n \in S : n <= m

\* the positions from a on at which t occurs in s
MatchesFrom(s, t, a) == {i \in a..(Len(s) - Len(t)) : StartsAt(s, t, i)}

\* s[a..].find(t), as a position of s
FindFrom(s, t, a) ==
    IF MatchesFrom(s, t, a) = {} THEN NoPos ELSE Least(MatchesFrom(s, t, a))

\* str::find: the start of the first occurrence of t in s
find(s, t) == FindFrom(s, t, 0)

\* str::rfind: the start of the last occurrence of t in s
rfind(s, t) ==
    IF MatchesFrom(s, t, 0) = {} THEN NoPos ELSE Greatest(MatchesFrom(s, t, 0))

\* str::contains
contains(s, t) == find(s, t) # NoPos

\* str::trim_start_matches for a one-character pattern: s from its first
\* character that is not c
trim_start_matches(s, c) ==
    SliceFrom(s, Least({i \in 0..Len(s) : i = Len(s) \/ Slice(s, i, i + 1) # c}))

\* Iterator::max and Iterator::min over the positions found (None when there is none)
MaxOf(S) == IF S = {} THEN NoPos ELSE Greatest(S)

MinOf(S) == IF S = {} THEN NoPos ELSE Least(S)

(***************************************************************************)
(* extract_relevant_lines, in its three steps.                             *)
(***************************************************************************)
\* tokens.iter().filter_map(|t| stderr.rfind(t))
TokenPositions(stderr, tokens) ==
    {rfind(stderr, tokens[i]) : i \in 1..Len(tokens)} \ {NoPos}

\* the mutation of the start-token choice that takes the smallest position
StripStart_min(stderr, strip_start_tokens) ==
    LET start_token_pos == MinOf(TokenPositions(stderr, strip_start_tokens))
    IN  IF start_token_pos = NoPos THEN stderr
        ELSE LET line_end == find(SliceFrom(stderr, start_token_pos), NL)
             IN  IF line_end = NoPos THEN ""
                 ELSE SliceFrom(stderr, line_end + start_token_pos + 1)

\* "Find best matching start token ... Keep only lines after that"
StripStart(stderr, strip_start_tokens) ==
    LET start_token_pos == MaxOf(TokenPositions(stderr, strip_start_tokens))
    IN  IF start_token_pos = NoPos THEN stderr
        ELSE LET line_end == find(SliceFrom(stderr, start_token_pos), NL)
             IN  IF line_end = NoPos THEN ""
                 ELSE SliceFrom(stderr, line_end + start_token_pos + 1)

\* the mutation of the end-token choice that takes the largest position
StripEnd_max(stderr, strip_end_tokens) ==
    LET end_token_pos == MaxOf(TokenPositions(stderr, strip_end_tokens))
    IN  IF end_token_pos = NoPos THEN stderr
        ELSE LET prev_line_end == rfind(Slice(stderr, 0, end_token_pos), NL)
             IN  IF prev_line_end = NoPos THEN ""
                 ELSE Slice(stderr, 0, prev_line_end + 1)

\* "Find best matching end token ... Keep only lines before that"
StripEnd(stderr, strip_end_tokens) ==
    LET end_token_pos == MinOf(TokenPositions(stderr, strip_end_tokens))
    IN  IF end_token_pos = NoPos THEN stderr
        ELSE LET prev_line_end == rfind(Slice(stderr, 0, end_token_pos), NL)
             IN  IF prev_line_end = NoPos THEN ""
                 ELSE Slice(stderr, 0, prev_line_end + 1)

RECURSIVE StripTrailingEmptyLines(_)
\* while stderr.ends_with("\n\n") { stderr = &stderr[..(stderr.len() - 1)]; }
StripTrailingEmptyLines(stderr) ==
    IF ends_with(stderr, "\n\n")
    THEN StripTrailingEmptyLines(Slice(stderr, 0, Len(stderr) - 1))
    ELSE stderr

\* "Strip trailing or leading empty lines"
StripEmptyLines(stderr) == StripTrailingEmptyLines(trim_start_matches(stderr, NL))

extract_relevant_lines(stderr, strip_start_tokens, strip_end_tokens) ==
    StripEmptyLines(StripEnd(StripStart(stderr, strip_start_tokens), strip_end_tokens))

(***************************************************************************)
(* Lines and whitespace.                                                   *)
(***************************************************************************)
\* char::is_whitespace, for the characters the model's texts are made of
WhiteSpace == {" ", "\t", "\r", NL}

IsWhite(c) == c \in WhiteSpace

\* str::trim_start: s from its first character that is not whitespace
trim_start(s) ==
    SliceFrom(s, Least({i \in 0..Len(s) : i = Len(s) \/ ~IsWhite(Slice(s, i, i + 1))}))

\* str::trim_end: s up to its last character that is not whitespace
trim_end(s) ==
    Slice(s, 0, Greatest({i \in 0..Len(s) : i = 0 \/ ~IsWhite(Slice(s, i - 1, i))}))

\* str::trim
trim(s) == trim_end(trim_start(s))

\* str::strip_prefix(p).unwrap_or(s)
strip_prefix_or(s, p) == IF starts_with(s, p) THEN SliceFrom(s, Len(p)) ELSE s

\* a line without the "\r" of a "\r\n" ending
WithoutCR(line) ==
    IF ends_with(line, "\r") THEN Slice(line, 0, Len(line) - 1) ELSE line

RECURSIVE lines(_)
\* str::lines, collected: the text split at "\n" or "\r\n"; the last line may lack
\* its ending, and no empty line follows a final ending
lines(s) ==
    IF s = "" THEN <<>>
    ELSE LET e == find(s, NL)
         IN  IF e = NoPos THEN <<s>>
             ELSE <<WithoutCR(Slice(s, 0, e))>> \o lines(SliceFrom(s, e + 1))

RECURSIVE PushLines(_, _)
\* for line in ls { output.push_str(line); output.push('\n'); }
PushLines(output, ls) ==
    IF ls = <<>> THEN output
    ELSE PushLines(output \o Head(ls) \o NL, Tail(ls))

(***************************************************************************)
(* maybe_wrap and strip_fn_main_boilerplate_from_formatted.                *)
(***************************************************************************)
FnMain == "fn main"

CrateAttr == "#!["

\* "fn main boilerplate"
WrapHeader(result_handling) ==
    CASE result_handling = "None" -> "fn main() {\n"
      [] result_handling = "Discard" -> "fn main() { let _ = {\n"
      [] result_handling = "Print" -> "fn main() { println!(\"{:?}\", {\n"

\* "fn main boilerplate counterpart"
WrapCloser(result_handling) ==
    CASE result_handling = "None" -> "}"
      [] result_handling = "Discard" -> "}; }"
      [] result_handling = "Print" -> "}); }"

RECURSIVE HoistAttributes_stop(_, _)
\* the mutation of the hoisting loop that lacks the branch for empty lines
HoistAttributes_stop(output, ls) ==
    IF ls = <<>> THEN [output |-> output, rest |-> ls]
    ELSE LET line == trim(Head(ls))
         IN  IF starts_with(line, CrateAttr)
             THEN HoistAttributes_stop(output \o line \o NL, Tail(ls))
             ELSE [output |-> output, rest |-> ls]

RECURSIVE HoistAttributes(_, _)
\* the `while let Some(line) = lines.peek()` loop: the crate attributes at the
\* start go to the output, trimmed; the result is the output and the lines left
HoistAttributes(output, ls) ==
    IF ls = <<>> THEN [output |-> output, rest |-> ls]
    ELSE LET line == trim(Head(ls))
         IN  IF starts_with(line, CrateAttr)
             THEN HoistAttributes(output \o line \o NL, Tail(ls))
             ELSE IF line = "" THEN HoistAttributes(output, Tail(ls))
             ELSE [output |-> output, rest |-> ls]

\* the mutation of maybe_wrap that wraps whatever the snippet holds
maybe_wrap_always(code, result_handling) ==
    LET hoisted == HoistAttributes("", lines(code))
        body == PushLines(hoisted.output \o WrapHeader(result_handling), hoisted.rest)
    IN  [owned |-> TRUE, text |-> body \o WrapCloser(result_handling)]

\* owned is TRUE for Cow::Owned (a wrap was done), FALSE for Cow::Borrowed
maybe_wrap(code, result_handling) ==
    IF contains(code, FnMain) THEN [owned |-> FALSE, text |-> code]
    ELSE LET hoisted == HoistAttributes("", lines(code))
             body == PushLines(hoisted.output \o WrapHeader(result_handling),
                               hoisted.rest)
         IN  [owned |-> TRUE, text |-> body \o WrapCloser(result_handling)]

RECURSIVE PushUnindented(_, _)
\* output.push_str(line.strip_prefix("    ").unwrap_or(line)); output.push('\n');
PushUnindented(output, ls) ==
    IF ls = <<>> THEN output
    ELSE PushUnindented(output \o strip_prefix_or(Head(ls), "    ") \o NL, Tail(ls))

\* the mutation of the stripping that names no end token
strip_fn_main_boilerplate_keep_closer(text) ==
    PushUnindented("", lines(extract_relevant_lines(text, <<"fn main() {">>, <<>>)))

strip_fn_main_boilerplate_from_formatted(text) ==
    PushUnindented("", lines(extract_relevant_lines(text, <<"fn main() {">>, <<"}">>)))

(***************************************************************************)
(* Flags and the playground link.                                          *)
(***************************************************************************)
\* impl FromStr for Channel, Mode, Edition: the value, or the error message
ParseChannel(v) ==
    IF v \in {"stable", "beta", "nightly"} THEN [ok |-> TRUE, value |-> v]
    ELSE [ok |-> FALSE, error |-> "invalid release channel '" \o v \o "'"]

ParseMode(v) ==
    IF v \in {"debug", "release"} THEN [ok |-> TRUE, value |-> v]
    ELSE [ok |-> FALSE, error |-> "invalid compilation mode '" \o v \o "'"]

ParseEdition(v) ==
    IF v \in {"2015", "2018"} THEN [ok |-> TRUE, value |-> v]
    ELSE [ok |-> FALSE, error |-> "invalid edition '" \o v \o "'"]

DefaultFlags == [channel |-> "nightly", mode |-> "debug", edition |-> "2018"]

\* key.parse(): the FromStr of the field that the key names
ParseValue(key, v) ==
    CASE key = "channel" -> ParseChannel(v)
      [] key = "mode" -> ParseMode(v)
      [] key = "edition" -> ParseEdition(v)

\* the mutation of a block of parse_flags that puts its error before the others
ParseFlag_prepend(acc, params, key) ==
    IF key \notin DOMAIN params THEN acc
    ELSE LET parsed == ParseValue(key, params[key])
         IN  IF parsed.ok
             THEN [acc EXCEPT !.flags = [acc.flags EXCEPT ![key] = parsed.value]]
             ELSE [acc EXCEPT !.errors = parsed.error \o NL \o acc.errors]

\* one "if let Some(..) = args.params.get(key)" block of parse_flags
ParseFlag(acc, params, key) ==
    IF key \notin DOMAIN params THEN acc
    ELSE LET parsed == ParseValue(key, params[key])
         IN  IF parsed.ok
             THEN [acc EXCEPT !.flags = [acc.flags EXCEPT ![key] = parsed.value]]
             ELSE [acc EXCEPT !.errors = acc.errors \o parsed.error \o NL]

\* the flags and the parse errors, each error on a line of its own
parse_flags(params) ==
    LET start == [flags |-> DefaultFlags, errors |-> ""]
        c == ParseFlag(start, params, "channel")
        m == ParseFlag(c, params, "mode")
    IN  ParseFlag(m, params, "edition")

url_from_gist(flags, gist_id) ==
    "https://play.rust-lang.org/?version=" \o flags.channel
        \o "&mode=" \o flags.mode
        \o "&edition=" \o flags.edition
        \o "&gist=" \o gist_id

(***************************************************************************)
(* The formatting of the tool's result and the reply.                      *)
(***************************************************************************)
\* "Extract compiler output and program stderr output and format the two nicely"
format_play_eval_stderr(result) ==
    LET compiler_warnings ==
            extract_relevant_lines(result.stderr, <<"Compiling playground">>,
                <<"warning emitted", "warnings emitted", "error: aborting", "Finished ">>)
        program_stderr ==
            IF contains(result.stderr, "Running 'target")
            THEN extract_relevant_lines(result.stderr, <<"Running 'target">>, <<>>)
            ELSE ""
    IN  [result EXCEPT !.stderr =
            IF compiler_warnings = "" /\ program_stderr = "" THEN ""
            ELSE IF program_stderr = "" THEN compiler_warnings
            ELSE IF compiler_warnings = "" THEN program_stderr
            ELSE compiler_warnings \o NL \o program_stderr]

\* effects: what a handler did to the world outside, in order
Posted(url, request) == [kind |-> "post", url |-> url, request |-> request]

GistPosted(code) == [kind |-> "gist", code |-> code]

RustfmtRun(text, edition) == [kind |-> "rustfmt", text |-> text, edition |-> edition]

Replied(text) == [kind |-> "reply", text |-> text]

\* send_reply was not reached
NotSent == [called |-> FALSE]

\* the outcome of a handler that did not reach send_reply: what it did, and
\* Ok(()) or the error it returned
Outcome(done, result) == [effects |-> done, result |-> result, sent |-> NotSent]

\* an outcome, after the effects that came before it
After(done, outcome) == [outcome EXCEPT !.effects = done \o @]

\* the platform's limit on the size of a message, scaled to the model's texts
MsgLimit == 60

\* crate::reply_potentially_long_text: the body and its end in one reply when
\* they fit the limit; otherwise the diagnostics before the code block and the
\* truncation message
reply_potentially_long_text(text_body, text_end, truncation_msg) ==
    IF Len(text_body) + Len(text_end) <= MsgLimit
    THEN Replied(text_body \o text_end)
    ELSE LET fence == find(text_body, "'''rust\n")
         IN  Replied(Slice(text_body, 0, IF fence = NoPos THEN 0 ELSE fence)
                        \o truncation_msg)

\* the body of the reply: stderr of a failure, else stdout after any stderr
ComposeResult(result) ==
    IF ~result.success THEN result.stderr
    ELSE IF result.stderr = "" THEN result.stdout
    ELSE result.stderr \o NL \o result.stdout

\* "Send a Discord reply with the formatted contents of a Playground result".
\* gist is what the paste service answers: [ok |-> TRUE, id |-> ..] or a failure.
\* The arguments of reply_potentially_long_text are evaluated before the call, so
\* post_gist runs whenever the result is not empty.
send_reply(result, code, flags, flag_parse_errors, gist) ==
    LET composed == ComposeResult(result)
        done ==
            IF trim(composed) = ""
            THEN Outcome(<<Replied(flag_parse_errors \o "''' '''")>>, "Ok")
            ELSE IF ~gist.ok THEN Outcome(<<GistPosted(code)>>, "Err")
            ELSE Outcome(
                    <<GistPosted(code),
                      reply_potentially_long_text(
                          flag_parse_errors \o "'''rust\n" \o composed,
                          "'''",
                          "Output too large. Playground link: "
                              \o url_from_gist(flags, gist.id))>>,
                    "Ok")
    IN  [done EXCEPT !.sent = [called |-> TRUE, result |-> result, code |-> code,
                               flags |-> flags,
                               flag_parse_errors |-> flag_parse_errors]]

(***************************************************************************)
(* The commands.  A handler is given what the world answers it: input is   *)
(* what crate::extract_code makes of the message ([ok |-> FALSE] when it   *)
(* fails), response what the playground answers, tool what the local       *)
(* rustfmt does, gist what the paste service answers.                      *)
(***************************************************************************)
CrateType(code) == IF contains(code, FnMain) THEN "bin" ELSE "lib"

PlaygroundRequest(code, flags) ==
    [code |-> code, channel |-> flags.channel, crateType |-> CrateType(code),
     edition |-> flags.edition, mode |-> flags.mode, tests |-> FALSE]

\* the mutation of play_or_eval that hands send_reply the snippet as it came
play_or_eval_original(input, params, result_handling, response, gist) ==
    IF ~input.ok THEN Outcome(<<>>, "Err")
    ELSE LET code == maybe_wrap(input.code, result_handling).text
             parsed == parse_flags(params)
             post == Posted("https://play.rust-lang.org/execute",
                            PlaygroundRequest(code, parsed.flags))
         IN  IF ~response.ok THEN Outcome(<<post>>, "Err")
             ELSE LET sent == send_reply(format_play_eval_stderr(response.result),
                                         input.code, parsed.flags, parsed.errors, gist)
                  IN  After(<<post>>, sent)

\* "play and eval work similarly, so this function abstracts over the two"
play_or_eval(input, params, result_handling, response, gist) ==
    IF ~input.ok THEN Outcome(<<>>, "Err")
    ELSE LET code == maybe_wrap(input.code, result_handling).text
             parsed == parse_flags(params)
             post == Posted("https://play.rust-lang.org/execute",
                            PlaygroundRequest(code, parsed.flags))
         IN  IF ~response.ok THEN Outcome(<<post>>, "Err")
             ELSE LET sent == send_reply(format_play_eval_stderr(response.result),
                                         code, parsed.flags, parsed.errors, gist)
                  IN  After(<<post>>, sent)

play(input, params, response, gist) ==
    play_or_eval(input, params, "None", response, gist)

eval(input, params, response, gist) ==
    play_or_eval(input, params, "Print", response, gist)

miri(input, params, response, gist) ==
    IF ~input.ok THEN Outcome(<<>>, "Err")
    ELSE LET code == maybe_wrap(input.code, "Discard").text
             parsed == parse_flags(params)
             post == Posted("https://play.rust-lang.org/miri",
                            [code |-> code, edition |-> parsed.flags.edition])
         IN  IF ~response.ok THEN Outcome(<<post>>, "Err")
             ELSE LET result ==
                          [response.result EXCEPT !.stderr =
                              extract_relevant_lines(@, <<"Running '/playground">>,
                                                     <<"error: aborting">>)]
                      sent == send_reply(result, code, parsed.flags, parsed.errors, gist)
                  IN  After(<<post>>, sent)

\* rustfmt's formatting of a text that it accepts: the text with one line
\* terminator at its end
Formatted(text) == trim_end(text) \o NL

\* apply_rustfmt: tool is "absent" (the process cannot be spawned), "fails"
\* (rustfmt exits with an error) or "formats"
apply_rustfmt(text, edition, tool) ==
    CASE tool = "absent" -> [ok |-> FALSE]
      [] tool = "fails" ->
            [ok |-> TRUE,
             result |-> [success |-> FALSE, stdout |-> "",
                         stderr |-> "error: expected one of '!' or '::'\n"]]
      [] tool = "formats" ->
            [ok |-> TRUE,
             result |-> [success |-> TRUE, stdout |-> Formatted(text), stderr |-> ""]]

expand_macros(input, params, response, tool, gist) ==
    IF ~input.ok THEN Outcome(<<>>, "Err")
    ELSE LET wrapped == maybe_wrap(input.code, "None")
             code == wrapped.text
             was_fn_main_wrapped == wrapped.owned
             parsed == parse_flags(params)
             post == Posted("https://play.rust-lang.org/macro-expansion",
                            [code |-> code, edition |-> parsed.flags.edition])
         IN  IF ~response.ok THEN Outcome(<<post>>, "Err")
             ELSE LET extracted ==
                          [response.result EXCEPT !.stderr =
                              extract_relevant_lines(@,
                                  <<"Finished ", "Compiling playground">>,
                                  <<"error: aborting">>)]
                      formatted ==
                          apply_rustfmt(extracted.stdout, parsed.flags.edition, tool)
                      ran == IF extracted.success
                             THEN <<RustfmtRun(extracted.stdout, parsed.flags.edition)>>
                             ELSE <<>>
                      after_fmt ==
                          IF extracted.success /\ formatted.ok /\ formatted.result.success
                          THEN [extracted EXCEPT !.stdout = formatted.result.stdout]
                          ELSE extracted
                      result ==
                          IF was_fn_main_wrapped
                          THEN [after_fmt EXCEPT !.stdout =
                                   strip_fn_main_boilerplate_from_formatted(@)]
                          ELSE after_fmt
                      sent == send_reply(result, code, parsed.flags, parsed.errors, gist)
                  IN  After(<<post>> \o ran, sent)

clippy(input, params, response, gist) ==
    IF ~input.ok THEN Outcome(<<>>, "Err")
    ELSE LET code == maybe_wrap(input.code, "Discard").text
             parsed == parse_flags(params)
             post == Posted("https://play.rust-lang.org/clippy",
                            [code |-> code, edition |-> parsed.flags.edition,
                             crateType |-> CrateType(code)])
         IN  IF ~response.ok THEN Outcome(<<post>>, "Err")
             ELSE LET result ==
                          [response.result EXCEPT !.stderr =
                              extract_relevant_lines(@,
                                  <<"Checking playground", "Running '/playground">>,
                                  <<"error: aborting", "1 warning emitted",
                                    "warnings emitted", "Finished ">>)]
                      sent == send_reply(result, code, parsed.flags, parsed.errors, gist)
                  IN  After(<<post>>, sent)

fmt(input, params, tool, gist) ==
    IF ~input.ok THEN Outcome(<<>>, "Err")
    ELSE LET wrapped == maybe_wrap(input.code, "None")
             parsed == parse_flags(params)
             formatted == apply_rustfmt(wrapped.text, parsed.flags.edition, tool)
             ran == RustfmtRun(wrapped.text, parsed.flags.edition)
         IN  IF ~formatted.ok THEN Outcome(<<ran>>, "Err")
             ELSE LET result ==
                          IF wrapped.owned
                          THEN [formatted.result EXCEPT !.stdout =
                                   strip_fn_main_boilerplate_from_formatted(@)]
                          ELSE formatted.result
                      sent == send_reply(result, wrapped.text, parsed.flags,
                                         parsed.errors, gist)
                  IN  After(<<ran>>, sent)

PubFn == "pub fn "

RECURSIVE MatchIndicesFrom(_, _, _)
MatchIndicesFrom(s, t, a) ==
    LET i == FindFrom(s, t, a)
    IN  IF i = NoPos THEN <<>> ELSE <<i>> \o MatchIndicesFrom(s, t, i + Len(t))

\* str::match_indices: the starts of the disjoint occurrences of t in s, in order
match_indices(s, t) == MatchIndicesFrom(s, t, 0)

\* the name after the marker at index: up to the next "(", trimmed; none when
\* no "(" follows
FunctionName(user_input, index) ==
    LET function_name_start == index + Len(PubFn)
        paren == find(SliceFrom(user_input, function_name_start), "(")
    IN  IF paren = NoPos THEN [found |-> FALSE]
        ELSE [found |-> TRUE,
              name |-> trim(Slice(user_input, function_name_start,
                                  paren + function_name_start))]

RECURSIVE BenchEntries(_, _)
\* the `for (index, _) in pub_fn_indices` loop: one entry for each name found
BenchEntries(user_input, indices) ==
    IF indices = <<>> THEN ""
    ELSE LET f == FunctionName(user_input, Head(indices))
         IN  (IF f.found THEN "(\"" \o f.name \o "\", " \o f.name \o "), " ELSE "")
                 \o BenchEntries(user_input, Tail(indices))

BenchPrelude == "#![feature(test)] #[allow(unused_imports)] use std::hint::black_box;\n"

\* the harness, the body of `bench` left out
BenchHarness == "\nfn bench(functions: &[(&str, fn())]) {\n}\n\nfn main() {\n"

NoCandidates == "No public functions found for benchmarking :thinking:"

BlackBoxHint ==
    "Hint: use the black_box function to prevent computations from being optimized out\n"

\* the program micro_bench has built when it posts it
BenchProgram(user_input) ==
    BenchPrelude \o user_input \o BenchHarness
        \o "bench(&[" \o BenchEntries(user_input, match_indices(user_input, PubFn))
        \o "]);\n}\n"

\* the mutation of micro_bench that posts the harness whatever it found
micro_bench_unchecked(input, params, response, gist) ==
    IF ~input.ok THEN Outcome(<<>>, "Err")
    ELSE LET user_input == input.code
             code == BenchProgram(user_input)
             parsed == parse_flags(params)
             forced == [parsed.flags EXCEPT !.channel = "nightly", !.mode = "release"]
             post == Posted("https://play.rust-lang.org/execute",
                            PlaygroundRequest(code, forced))
         IN  IF ~response.ok THEN Outcome(<<post>>, "Err")
             ELSE LET sent == send_reply(format_play_eval_stderr(response.result),
                                         code, parsed.flags, parsed.errors, gist)
                  IN  After(<<post>>, sent)

micro_bench(input, params, response, gist) ==
    IF ~input.ok THEN Outcome(<<>>, "Err")
    ELSE LET user_input == input.code
             black_box_hint == ~contains(user_input, "black_box")
             pub_fn_indices == match_indices(user_input, PubFn)
         IN  IF Len(pub_fn_indices) = 0 THEN Outcome(<<Replied(NoCandidates)>>, "Ok")
             ELSE LET code == BenchProgram(user_input)
                      parsed == parse_flags(params)
                      forced == [parsed.flags EXCEPT !.channel = "nightly",
                                                     !.mode = "release"]
                      post == Posted("https://play.rust-lang.org/execute",
                                     PlaygroundRequest(code, forced))
                      flag_parse_errors ==
                          IF black_box_hint THEN parsed.errors \o BlackBoxHint
                          ELSE parsed.errors
                  IN  IF ~response.ok THEN Outcome(<<post>>, "Err")
                      ELSE LET sent ==
                                   send_reply(format_play_eval_stderr(response.result),
                                              code, parsed.flags, flag_parse_errors,
                                              gist)
                           IN  After(<<post>>, sent)

(***************************************************************************)
(* Inputs.                                                                 *)
(***************************************************************************)
RECURSIVE StringsOver(_, _)
\* the strings made of at most n pieces
StringsOver(pieces, n) ==
    IF n = 0 THEN {""}
    ELSE LET shorter == StringsOver(pieces, n - 1)
         IN  shorter \cup {s \o p : s \in shorter, p \in pieces}

RECURSIVE ListsOver(_, _)
\* the lists of at most n elements of S
ListsOver(S, n) ==
    IF n = 0 THEN {<<>>}
    ELSE LET shorter == ListsOver(S, n - 1)
         IN  shorter \cup {Append(l, x) : l \in shorter, x \in S}

\* tool output: two letters and the line terminator
OutputChars == {"a", "b", NL}

\* token lists over the same letters: one token a prefix of another, one spanning
\* two lines ("b" alone is no token); every selection of the three, in some order
TokenLists ==
    { <<>>, <<"a">>, <<"ab">>, <<"b\na">>, <<"ab", "a">>, <<"a", "b\na">>,
      <<"b\na", "ab">>, <<"a", "ab", "b\na">> }

\* lines of a user snippet: blank, plain, indented, a closing brace, crate
\* attributes (one with whitespace around it), one that defines the entry point
SnippetLines ==
    {"", "  ", "x", "    x", "}", "#![a]", "  #![b] ", "fn main() {}"}

RECURSIVE JoinLines(_)
JoinLines(ls) ==
    IF ls = <<>> THEN ""
    ELSE IF Len(ls) = 1 THEN Head(ls)
    ELSE Head(ls) \o NL \o JoinLines(Tail(ls))

\* user snippets: lines joined by "\n", the last with or without its ending
Snippets ==
    LET joined == {JoinLines(ls) : ls \in ListsOver(SnippetLines, MaxLines)}
    IN  joined \cup {j \o NL : j \in joined}

ResultHandling == {"None", "Discard", "Print"}

\* lines of the output of cargo and of the program run
OutputLines ==
    {"", "   Compiling playground v0.0.1", "warning: unused", "warning: 1 warning emitted",
     "    Finished dev", "     Running 'target/debug/playground'", "oops"}

\* raw stderr of the playground: lines joined by "\n", the last with or without
\* its ending
RawOutputs ==
    LET joined == {JoinLines(ls) : ls \in ListsOver(OutputLines, MaxOutputLines)}
    IN  joined \cup {j \o NL : j \in joined}

\* a mapping with no key
NoParams == [k \in {} |-> ""]

\* the value of a key of the command line: absent, or one of the values
Param(key, values) == {NoParams} \cup {key :> v : v \in values}

\* args.params: each recognized key absent, valid or invalid, and a key that is
\* not recognized
AllParams ==
    {c @@ m @@ e @@ u :
        c \in Param("channel", {"stable", "beta", "nightly", "bogus"}),
        m \in Param("mode", {"debug", "release", "fast"}),
        e \in Param("edition", {"2015", "2018", "2021"}),
        u \in Param("warn", {"true"})}

\* the parameters the commands are run with
CommandParams ==
    {NoParams, "channel" :> "bogus", ("mode" :> "release") @@ ("edition" :> "2015"),
     ("channel" :> "beta") @@ ("edition" :> "2021") @@ ("warn" :> "true")}

\* what crate::extract_code makes of the message: no code, or the snippet
CommandInputs ==
    {[ok |-> FALSE]} \cup
    {[ok |-> TRUE, code |-> c] :
        c \in {"x", "  #![a] \nx\n", "fn main() {}", "pub fn f() {}", "pub fn g",
               "fn foo() {}\npub fn bar() {}", "black_box(1);\npub fn h () {}\n"}}

RECURSIVE Repeat(_, _)
Repeat(c, n) == IF n = 0 THEN "" ELSE c \o Repeat(c, n - 1)

\* an output that alone is over the limit of a message
LongOutput == Repeat("z", MsgLimit + 1) \o NL

StderrClean ==
    "   Compiling playground v0.0.1\n    Finished dev\n     Running 'target/debug/playground'\n"

StderrWarned ==
    "   Compiling playground v0.0.1\nwarning: unused\n\nwarning: 1 warning emitted\n\n"
        \o "    Finished dev\n     Running 'target/debug/playground'\noops"

\* what the playground answers: a failure of the request, or a result
Responses ==
    {[ok |-> FALSE]} \cup
    {[ok |-> TRUE, result |-> [success |-> ok, stdout |-> out, stderr |-> err]] :
        ok \in BOOLEAN, out \in {"", "hi\n", LongOutput},
        err \in {"", "boom", StderrClean, StderrWarned}}

Tools == {"absent", "fails", "formats"}

\* what the paste service answers: a failure of the request, or the id of the gist
Gists == {[ok |-> FALSE], [ok |-> TRUE, id |-> "0123abcd"]}

(***************************************************************************)
(* The state machine: a request is idle, then handled in one step.         *)
(***************************************************************************)
NoCall == [op |-> "none"]

Init ==
    /\ pc = "idle"
    /\ call = NoCall
    /\ ret = NoCall
    /\ effects = <<>>

\* one call of extract_relevant_lines; the two intermediate texts are recorded
ExtractRelevantLines ==
    /\ pc = "idle"
    /\ \E stderr \in StringsOver(OutputChars, MaxTextLen),
          starts \in TokenLists,
          ends \in TokenLists :
          /\ call' = [op |-> "extract_relevant_lines", stderr |-> stderr,
                      strip_start_tokens |-> starts, strip_end_tokens |-> ends]
          /\ ret' = [op |-> "extract_relevant_lines",
                     after_start |-> StripStart(stderr, starts),
                     after_end |-> StripEnd(StripStart(stderr, starts), ends),
                     value |-> extract_relevant_lines(stderr, starts, ends)]
    /\ pc' = "done"
    /\ UNCHANGED effects

\* one call of format_play_eval_stderr
FormatPlayEvalStderr ==
    /\ pc = "idle"
    /\ \E stderr \in RawOutputs :
          /\ call' = [op |-> "format_play_eval_stderr", stderr |-> stderr]
          /\ ret' = [op |-> "format_play_eval_stderr",
                     result |-> format_play_eval_stderr(
                         [success |-> TRUE, stdout |-> "", stderr |-> stderr])]
    /\ pc' = "done"
    /\ UNCHANGED effects

\* one call of parse_flags
ParseFlags ==
    /\ pc = "idle"
    /\ \E params \in AllParams :
          /\ call' = [op |-> "parse_flags", params |-> params]
          /\ ret' = [op |-> "parse_flags", parsed |-> parse_flags(params)]
    /\ pc' = "done"
    /\ UNCHANGED effects

NextText == ExtractRelevantLines \/ FormatPlayEvalStderr \/ ParseFlags

\* the functions on text, each called once on any of its inputs
SpecText == Init /\ [][NextText]_vars

\* one call of maybe_wrap
MaybeWrap ==
    /\ pc = "idle"
    /\ \E code \in Snippets, result_handling \in ResultHandling :
          /\ call' = [op |-> "maybe_wrap", code |-> code,
                      result_handling |-> result_handling]
          /\ ret' = [op |-> "maybe_wrap", code |-> maybe_wrap(code, result_handling)]
    /\ pc' = "wrapped"
    /\ UNCHANGED effects

\* `if was_fn_main_wrapped { strip_fn_main_boilerplate_from_formatted(..) }`,
\* applied to the wrapped code itself
StripBoilerplate ==
    /\ pc = "wrapped"
    /\ ret.code.owned
    /\ ret' = [op |-> "strip_fn_main_boilerplate_from_formatted", code |-> ret.code,
               stripped |-> strip_fn_main_boilerplate_from_formatted(ret.code.text)]
    /\ pc' = "done"
    /\ UNCHANGED <<call, effects>>

NextWrap == MaybeWrap \/ StripBoilerplate

SpecWrap == Init /\ [][NextWrap]_vars

\* a command has run to its end: what it was given, what it did, what it returned
Handled(op, input, params, response, tool, gist, outcome) ==
    /\ call' = [op |-> op, input |-> input, params |-> params, response |-> response,
                tool |-> tool, gist |-> gist]
    /\ ret' = [op |-> op, result |-> outcome.result, sent |-> outcome.sent]
    /\ effects' = outcome.effects
    /\ pc' = "done"

Play ==
    /\ pc = "idle"
    /\ \E input \in CommandInputs, params \in CommandParams, response \in Responses,
          gist \in Gists :
           Handled("play", input, params, response, "unused", gist,
                   play(input, params, response, gist))

Eval ==
    /\ pc = "idle"
    /\ \E input \in CommandInputs, params \in CommandParams, response \in Responses,
          gist \in Gists :
           Handled("eval", input, params, response, "unused", gist,
                   eval(input, params, response, gist))

Miri ==
    /\ pc = "idle"
    /\ \E input \in CommandInputs, params \in CommandParams, response \in Responses,
          gist \in Gists :
           Handled("miri", input, params, response, "unused", gist,
                   miri(input, params, response, gist))

ExpandMacros ==
    /\ pc = "idle"
    /\ \E input \in CommandInputs, params \in CommandParams, response \in Responses,
          tool \in Tools, gist \in Gists :
           Handled("expand", input, params, response, tool, gist,
                   expand_macros(input, params, response, tool, gist))

Clippy ==
    /\ pc = "idle"
    /\ \E input \in CommandInputs, params \in CommandParams, response \in Responses,
          gist \in Gists :
           Handled("clippy", input, params, response, "unused", gist,
                   clippy(input, params, response, gist))

Fmt ==
    /\ pc = "idle"
    /\ \E input \in CommandInputs, params \in CommandParams, tool \in Tools,
          gist \in Gists :
           Handled("fmt", input, params, [ok |-> FALSE], tool, gist,
                   fmt(input, params, tool, gist))

MicroBench ==
    /\ pc = "idle"
    /\ \E input \in CommandInputs, params \in CommandParams, response \in Responses,
          gist \in Gists :
           Handled("microbench", input, params, response, "unused", gist,
                   micro_bench(input, params, response, gist))

NextCmd == Play \/ Eval \/ Miri \/ ExpandMacros \/ Clippy \/ Fmt \/ MicroBench

\* the commands, each run once on any message and any answers of the world
SpecCmd == Init /\ [][NextCmd]_vars

(***************************************************************************)
(* Properties of extract_relevant_lines.                                   *)
(***************************************************************************)
Extracted == pc = "done" /\ call.op = "extract_relevant_lines"

\* the positions at which any of the tokens occurs in text
Occurrences(text, tokens) ==
    {i \in 0..Len(text) : \E k \in 1..Len(tokens) : StartsAt(text, tokens[k], i)}

\* the start of the last occurrence of each token that occurs in text
LastOccurrences(text, tokens) ==
    {i \in 0..Len(text) : \E k \in 1..Len(tokens) :
        /\ StartsAt(text, tokens[k], i)
        /\ \A j \in (i + 1)..Len(text) : ~StartsAt(text, tokens[k], j)}

\* the positions of the line terminators of text
Terminators(text) == {j \in 0..(Len(text) - 1) : Slice(text, j, j + 1) = NL}

\* C3: the front of the text is cut after the line that holds the start of the
\* start-token occurrence whose last occurrence starts latest; the text is left
\* empty when that line has no terminator and is left whole when no start token
\* occurs.
C3_FrontTruncation ==
    Extracted =>
        LET text == call.stderr
            last == LastOccurrences(text, call.strip_start_tokens)
        IN  IF last = {} THEN ret.after_start = text
            ELSE LET p == CHOOSE m \in last : \A n \in last : n <= m
                     ends == {j \in Terminators(text) : j >= p}
                 IN  IF ends = {} THEN ret.after_start = ""
                     ELSE \E e \in ends :
                            /\ \A f \in ends : e <= f
                            /\ ret.after_start = SliceFrom(text, e + 1)

\* C3 witness: two last occurrences compete, the earlier one followed by a
\* terminator of its own, and text remains after the cut
C3_Witness ==
    /\ Extracted
    /\ Cardinality(LastOccurrences(call.stderr, call.strip_start_tokens)) >= 2
    /\ Cardinality(Occurrences(call.stderr, call.strip_start_tokens)) >= 3
    /\ Cardinality(Terminators(call.stderr)) >= 2
    /\ ret.after_start # ""
    /\ ret.after_start # call.stderr

Wrapped == pc \in {"wrapped", "done"} /\ call.op = "maybe_wrap"

\* the snippet holds the entry-point marker somewhere
HasFnMain(code) == Occurrences(code, <<FnMain>>) # {}

IsAttrLine(line) == starts_with(trim(line), CrateAttr)

IsBlankLine(line) == trim(line) = ""

\* how many lines the leading run of attribute and blank lines has
LeadingRun(ls) ==
    CHOOSE k \in 0..Len(ls) :
        /\ \A i \in 1..k : IsAttrLine(ls[i]) \/ IsBlankLine(ls[i])
        /\ k < Len(ls) => ~(IsAttrLine(ls[k + 1]) \/ IsBlankLine(ls[k + 1]))

\* the attribute lines of the leading run, in order
LeadingAttrs(ls) == SelectSeq(SubSeq(ls, 1, LeadingRun(ls)), IsAttrLine)

\* the lines after the leading run
BodyLines(ls) == SubSeq(ls, LeadingRun(ls) + 1, Len(ls))

RECURSIVE Terminated(_)
\* every line followed by its terminator
Terminated(ls) == IF ls = <<>> THEN "" ELSE Head(ls) \o NL \o Terminated(Tail(ls))

\* C6: a snippet that holds "fn main" comes back unchanged and marked not
\* wrapped, under every policy; any other snippet comes back marked wrapped
\* and holds "fn main" exactly once, at the start of the synthesized header.
C6_WrapOnlyWithoutMain ==
    Wrapped =>
        IF HasFnMain(call.code)
        THEN ret.code = [owned |-> FALSE, text |-> call.code]
        ELSE /\ ret.code.owned
             /\ Cardinality(Occurrences(ret.code.text, <<FnMain>>)) = 1
             /\ \A p \in Occurrences(ret.code.text, <<FnMain>>) :
                    StartsAt(ret.code.text, WrapHeader(call.result_handling), p)

\* C6 witness: a snippet with a crate attribute and a body was wrapped for
\* printing
C6_Witness ==
    /\ Wrapped
    /\ call.result_handling = "Print"
    /\ ret.code.owned
    /\ LeadingAttrs(lines(call.code)) # <<>>
    /\ BodyLines(lines(call.code)) # <<>>

\* C7 as stated: under Discard the output is the attribute lines of the leading
\* run verbatim and in order, the header, the remaining lines verbatim, the
\* closer.
C7_HoistedVerbatim ==
    (Wrapped /\ call.result_handling = "Discard" /\ ~HasFnMain(call.code)) =>
        ret.code.text =
            Terminated(LeadingAttrs(lines(call.code)))
                \o "fn main() { let _ = {" \o NL
                \o Terminated(BodyLines(lines(call.code)))
                \o "}; }"

\* a list of lines, each trimmed
Trimmed(ls) == [i \in 1..Len(ls) |-> trim(ls[i])]

\* C7, amended: under Discard the output is the leading attribute lines with the
\* whitespace around each trimmed, in order, then the header, the remaining
\* lines verbatim, the closer; attributes after the leading run stay in the body.
C7_HoistedTrimmed ==
    (Wrapped /\ call.result_handling = "Discard" /\ ~HasFnMain(call.code)) =>
        ret.code.text =
            Terminated(Trimmed(LeadingAttrs(lines(call.code))))
                \o "fn main() { let _ = {" \o NL
                \o Terminated(BodyLines(lines(call.code)))
                \o "}; }"

\* C7 witness: two attributes are hoisted, one of them trimmed, and an attribute
\* after the first body line stays in the body
C7_Witness ==
    /\ Wrapped
    /\ call.result_handling = "Discard"
    /\ ret.code.owned
    /\ Len(LeadingAttrs(lines(call.code))) = 2
    /\ Trimmed(LeadingAttrs(lines(call.code))) # LeadingAttrs(lines(call.code))
    /\ \E i \in 1..Len(BodyLines(lines(call.code))) :
          i > 1 /\ IsAttrLine(BodyLines(lines(call.code))[i])

Stripped == pc = "done" /\ ret.op = "strip_fn_main_boilerplate_from_formatted"

\* line s is line r, or r without one four-space indent
SameModuloIndent(s, r) == s = r \/ "    " \o s = r

SameLinesModuloIndent(ss, rs) ==
    /\ Len(ss) = Len(rs)
    /\ \A i \in 1..Len(ss) : SameModuloIndent(ss[i], rs[i])

\* C8 as stated: stripping the wrapped snippet gives back the body lines (the
\* snippet's lines after the hoisted leading run), every one of them, in order,
\* modulo one four-space indent a line.
C8_RoundTripAllLines ==
    Stripped =>
        SameLinesModuloIndent(lines(ret.stripped), BodyLines(lines(call.code)))

RECURSIVE WithoutTrailingEmpty(_)
\* a list of lines without the empty lines at its end
WithoutTrailingEmpty(ls) ==
    IF ls # <<>> /\ ls[Len(ls)] = "" THEN WithoutTrailingEmpty(SubSeq(ls, 1, Len(ls) - 1))
    ELSE ls

\* C8, amended: stripping the wrapped snippet gives back the body lines without
\* the empty lines at the end of the snippet, in order, modulo one four-space
\* indent a line.
C8_RoundTripBody ==
    Stripped =>
        SameLinesModuloIndent(lines(ret.stripped),
                              WithoutTrailingEmpty(BodyLines(lines(call.code))))

\* C8 witness: an attribute was hoisted, the body has an indented line and a
\* closing brace of its own, and an empty line at the end was dropped
C8_Witness ==
    /\ Stripped
    /\ LeadingAttrs(lines(call.code)) # <<>>
    /\ LET body == BodyLines(lines(call.code))
       IN  /\ Len(body) = 3
           /\ \E i \in 1..Len(body) : starts_with(body[i], "    ")
           /\ body[Len(body)] = ""
           /\ Len(lines(ret.stripped)) = 2

(***************************************************************************)
(* Properties of the strings of several lines.                             *)
(***************************************************************************)
\* empty, or ending with one line terminator and no more
OneTerminator(text) == text = "" \/ (ends_with(text, NL) /\ ~ends_with(text, "\n\n"))

\* C5: the diagnostics of parse_flags, the text of extract_relevant_lines and
\* the stderr rewritten by format_play_eval_stderr are each empty or end with
\* exactly one line terminator.
C5_OneTrailingTerminator ==
    pc = "done" =>
        /\ call.op = "parse_flags" => OneTerminator(ret.parsed.errors)
        /\ call.op = "extract_relevant_lines" => OneTerminator(ret.value)
        /\ call.op = "format_play_eval_stderr" => OneTerminator(ret.result.stderr)

(***************************************************************************)
(* Properties of the commands.                                             *)
(***************************************************************************)
Commands == {"play", "eval", "miri", "expand", "clippy", "fmt", "microbench"}

Done == pc = "done" /\ call.op \in Commands

\* the effects of one kind, in order
EffectsOf(kind) == SelectSeq(effects, LAMBDA e : e.kind = kind)

\* send_reply was reached with a result whose body is not empty after trimming
BodyNotEmpty == ret.sent.called /\ trim(ComposeResult(ret.sent.result)) # ""

\* the diagnostics and the formatted body are over the limit of one message
Overflows ==
    /\ BodyNotEmpty
    /\ Len(ret.sent.flag_parse_errors \o "'''rust\n" \o ComposeResult(ret.sent.result))
            + Len("'''") > MsgLimit

\* C1: once send_reply has been reached, the paste service was called exactly
\* once if the diagnostics and the formatted body are over the limit, and not at
\* all if they fit or if the body is empty after trimming.
C1_GistOnlyOnOverflow ==
    (Done /\ ret.sent.called) =>
        Len(EffectsOf("gist")) = IF Overflows THEN 1 ELSE 0

\* C2 as stated: the text uploaded on the overflow path is the snippet of the
\* user as it was before any wrapping.
C2_UploadsOriginal ==
    (Done /\ Overflows) =>
        \A i \in 1..Len(EffectsOf("gist")) : EffectsOf("gist")[i].code = call.input.code

\* the programs the command handed to a tool: the code of a request to the
\* playground, the text given to rustfmt by fmt
Submitted ==
    {EffectsOf("post")[i].request.code : i \in 1..Len(EffectsOf("post"))}
        \cup (IF call.op = "fmt"
               THEN {EffectsOf("rustfmt")[i].text : i \in 1..Len(EffectsOf("rustfmt"))}
               ELSE {})

\* C2, amended: the text a command uploads is the program it handed to the
\* tool; that is the snippet of the user when the snippet holds "fn main" and
\* the command is not microbench, and otherwise it is the wrapped snippet or
\* the harness, which differ from the snippet.
C2_UploadsSubmittedProgram ==
    Done =>
        \A i \in 1..Len(EffectsOf("gist")) :
            LET uploaded == EffectsOf("gist")[i].code
            IN  /\ uploaded \in Submitted
                /\ uploaded = call.input.code
                      <=> (call.op # "microbench" /\ HasFnMain(call.input.code))
                /\ call.op = "microbench" => uploaded = BenchProgram(call.input.code)
                /\ (call.op # "microbench" /\ ~HasFnMain(call.input.code)) =>
                      \E p \in Occurrences(uploaded, <<FnMain>>) :
                          StartsAt(uploaded, "fn main() {", p)

\* C2 witness: eval wrapped a snippet, its output was over the limit, the
\* wrapped program was uploaded and the link was sent
C2_Witness ==
    /\ Done
    /\ call.op = "eval"
    /\ Overflows
    /\ ~HasFnMain(call.input.code)
    /\ Len(EffectsOf("gist")) = 1
    /\ Len(EffectsOf("reply")) = 1
    /\ Occurrences(EffectsOf("reply")[1].text, <<"&gist=0123abcd">>) # {}

C10_FormatToolSoftFailure ==
    (/\ Done
     /\ call.op \in {"fmt", "expand"}
     /\ Len(EffectsOf("rustfmt")) > 0
     /\ call.tool \in {"absent", "fails"}
     /\ call.gist.ok) =>
        ret.result = "Ok" /\ Len(EffectsOf("reply")) = 1

\* the diagnostics parse_flags gives for the parameters of the command
Diagnostics == parse_flags(call.params).errors

\* C11: every reply a playground command sends starts with the diagnostics of
\* its parameters, on every path that ends in a reply: the empty body, the
\* inline body, the link sent on overflow, the rejection of a benchmark.
C11_RepliesCarryDiagnostics ==
    Done =>
        \A i \in 1..Len(EffectsOf("reply")) :
            starts_with(EffectsOf("reply")[i].text, Diagnostics)

(***************************************************************************)
(* Properties of parse_flags.                                              *)
(***************************************************************************)
FlagsParsed == pc = "done" /\ call.op = "parse_flags"

RecognizedKeys == <<"channel", "mode", "edition">>

\* the key is present and its value does not parse
Invalid(params, key) == key \in DOMAIN params /\ ~ParseValue(key, params[key]).ok

\* the line of the diagnostics for a key: its error message and a line
\* terminator if the key is present and invalid, nothing otherwise
ErrorLine(params, key) ==
    IF Invalid(params, key) THEN ParseValue(key, params[key]).error \o NL ELSE ""

\* the parameters without the keys that are not recognized
Recognized(params) ==
    [k \in DOMAIN params \cap {"channel", "mode", "edition"} |-> params[k]]

\* C12: parse_flags returns flags and diagnostics for every mapping; each of
\* channel, mode and edition is the parsed value if the key is present and
\* valid and the default (nightly, debug, 2018) otherwise; the diagnostics are
\* one "<error message>\n" line for each present and invalid key, in the order
\* channel, mode, edition, and empty when there is none; the keys that are not
\* recognized change neither.
C12_ParseFlagsTotal ==
    FlagsParsed =>
        /\ DOMAIN ret.parsed = {"flags", "errors"}
        /\ DOMAIN ret.parsed.flags = {"channel", "mode", "edition"}
        /\ \A i \in 1..Len(RecognizedKeys) :
              LET key == RecognizedKeys[i]
              IN  ret.parsed.flags[key] =
                      IF key \in DOMAIN call.params /\ ~Invalid(call.params, key)
                      THEN call.params[key]
                      ELSE DefaultFlags[key]
        /\ ret.parsed.errors =
              ErrorLine(call.params, "channel") \o ErrorLine(call.params, "mode")
                  \o ErrorLine(call.params, "edition")
        /\ (\A i \in 1..Len(RecognizedKeys) : ~Invalid(call.params, RecognizedKeys[i]))
              => ret.parsed.errors = ""
        /\ ret.parsed = parse_flags(Recognized(call.params))

\* C12 witness: the channel and the edition are invalid, the mode is valid and
\* not the default, and a key that is not recognized is present; the
\* diagnostics are the two lines, the channel's first
C12_Witness ==
    /\ FlagsParsed
    /\ call.params = ("channel" :> "bogus") @@ ("mode" :> "release")
                        @@ ("edition" :> "2021") @@ ("warn" :> "true")
    /\ ret.parsed.flags = [channel |-> "nightly", mode |-> "release", edition |-> "2018"]
    /\ ret.parsed.errors = "invalid release channel 'bogus'\ninvalid edition '2021'\n"

(***************************************************************************)
(* The moderation commands (src/src/moderation.rs).  A point in time is a  *)
(* number of minutes; a message of the channel is its id, the id of its    *)
(* author and its timestamp.                                               *)
(***************************************************************************)
\* most messages of the channel that cleanup is run in
MaxMessages == 3

Digits == "0123456789"

\* char::to_digit(10), NoPos for a character that is no digit
DigitValue(c) == find(Digits, c)

AllDigits(s) == \A i \in 1..Len(s) : DigitValue(SubSeq(s, i, i)) # NoPos

RECURSIVE DecimalValue(_, _)
\* the number that the digits of s continue, acc being the number so far
DecimalValue(acc, s) ==
    IF s = "" THEN acc
    ELSE DecimalValue(acc * 10 + DigitValue(SubSeq(s, 1, 1)), SliceFrom(s, 1))

\* the greatest u16
U16Max == 65535

\* str::parse::<u16>: digits after an optional "+", the number at most U16Max
parse_u16(s) ==
    LET digits == IF starts_with(s, "+") THEN SliceFrom(s, 1) ELSE s
    IN  IF digits = "" \/ ~AllDigits(digits) THEN [ok |-> FALSE]
        ELSE IF DecimalValue(0, digits) > U16Max THEN [ok |-> FALSE]
        ELSE [ok |-> TRUE, value |-> DecimalValue(0, digits)]

\* str::parse::<usize> and str::parse::<u64>: digits after an optional "+"
\* (the numbers of the model are far below the greatest u64)
parse_u64(s) ==
    LET digits == IF starts_with(s, "+") THEN SliceFrom(s, 1) ELSE s
    IN  IF digits = "" \/ ~AllDigits(digits) THEN [ok |-> FALSE]
        ELSE [ok |-> TRUE, value |-> DecimalValue(0, digits)]

\* the limit when the command names none
DefaultLimit == 5

\* how many messages the platform is asked for
FetchLimit == 100

\* the age, in hours, from which a message is out of reach of a non-mod
HoursLimit == 24

\* Duration::num_hours of a number of minutes: whole hours, rounded toward zero
num_hours(minutes) ==
    IF minutes >= 0 THEN minutes \div 60 ELSE -((-minutes) \div 60)

\* Iterator::take
take(s, n) == SubSeq(s, 1, IF n < Len(s) THEN n ELSE Len(s))

\* msg.delete and crate::react_custom_emoji, as effects
Deleted(msg) == [kind |-> "delete", msg |-> msg]

Reacted(emoji) == [kind |-> "react", emoji |-> emoji]

\* args.msg.member: None in a direct message, else the roles of the invoker
is_mod(member, mod_role_id) ==
    IF member.some THEN mod_role_id \in member.roles ELSE TRUE

\* the closure of filter: may the message be deleted for this invocation
CleanupFilter(msg, invoking_timestamp, mod, bot_id) ==
    IF msg.author # bot_id THEN FALSE
    ELSE IF mod THEN TRUE
    ELSE IF num_hours(msg.timestamp - invoking_timestamp) >= HoursLimit THEN FALSE
    ELSE TRUE

RECURSIVE DeleteEach(_, _)
\* try_for_each(|msg| msg.delete(..)): the deletions in order, up to the first
\* that the platform refuses
DeleteEach(msgs, refused) ==
    IF msgs = <<>> THEN [ok |-> TRUE, effects |-> <<>>]
    ELSE IF Head(msgs).id \in refused THEN [ok |-> FALSE, effects |-> <<>>]
    ELSE LET rest == DeleteEach(Tail(msgs), refused)
         IN  [rest EXCEPT !.effects = <<Deleted(Head(msgs))>> \o @]

\* cleanup: body and invoker are of the invoking message, channel is the
\* messages of the channel, newest first ([ok |-> FALSE] when the request fails),
\* refused the ids of the messages the platform refuses to delete
cleanup(body, invoker, invoking_timestamp, channel, refused, mod_role_id, bot_id) ==
    LET num_messages ==
            IF body = "" THEN [ok |-> TRUE, value |-> DefaultLimit] ELSE parse_u64(body)
        mod == is_mod(invoker, mod_role_id)
    IN  IF ~num_messages.ok THEN [effects |-> <<>>, result |-> "Err"]
        ELSE IF ~channel.ok THEN [effects |-> <<>>, result |-> "Err"]
        ELSE LET fetched == take(channel.messages, FetchLimit)
                 chosen ==
                     SelectSeq(fetched,
                         LAMBDA msg : CleanupFilter(msg, invoking_timestamp, mod, bot_id))
                 deleted == DeleteEach(take(chosen, num_messages.value), refused)
             IN  IF ~deleted.ok THEN [effects |-> deleted.effects, result |-> "Err"]
                 ELSE [effects |-> deleted.effects \o <<Reacted("rustOk")>>,
                       result |-> "Ok"]

\* inputs of cleanup
ModRoleId == "mod"

BotUserId == "bot"

\* the body of the command: no limit, a limit, a limit of zero, no number
CleanupBodies == {"", "1", "2", "0", "all"}

\* the invoker: in a direct message (no member), or a member with its roles
Invokers ==
    {[some |-> FALSE]} \cup
    {[some |-> TRUE, roles |-> r] : r \in {{}, {"helper"}, {ModRoleId, "helper"}}}

\* the minute the invoking message was sent at, and the minutes of the other
\* messages: 25 hours before it, 24 hours, a minute less than 24 hours, five
\* minutes, and a minute after it
InvokedAt == {1500}

Timestamps == {0, 60, 61, 1495, 1501}

\* what a message can be, its id apart
MessageKinds == {[author |-> a, timestamp |-> t] : a \in {BotUserId, "user"}, t \in Timestamps}

\* the messages of a channel as the platform lists them, newest first, the id
\* of each its place in the list
Channels ==
    {[i \in 1..Len(l) |-> [id |-> i, author |-> l[i].author, timestamp |-> l[i].timestamp]] :
        l \in {k \in ListsOver(MessageKinds, MaxMessages) :
                  \A i \in 1..(Len(k) - 1) : k[i].timestamp >= k[i + 1].timestamp}}

ChannelAnswers == {[ok |-> FALSE]} \cup {[ok |-> TRUE, messages |-> c] : c \in Channels}

\* the messages that the platform refuses to delete: none, or the second
Refusals == {{}, {2}}

\* one invocation of ?cleanup
Cleanup ==
    /\ pc = "idle"
    /\ \E body \in CleanupBodies, invoker \in Invokers, at \in InvokedAt,
          channel \in ChannelAnswers, refused \in Refusals :
          LET outcome == cleanup(body, invoker, at, channel, refused, ModRoleId, BotUserId)
          IN  /\ call' = [op |-> "cleanup", body |-> body, invoker |-> invoker,
                          timestamp |-> at, channel |-> channel, refused |-> refused]
              /\ ret' = [op |-> "cleanup", result |-> outcome.result]
              /\ effects' = outcome.effects
              /\ pc' = "done"

(***************************************************************************)
(* moderation.rs: parse_member.  The members of a guild are a set of        *)
(* records with different ids; an Option is a record with the field some.  *)
(***************************************************************************)
UpperCase == "ABCDEFGHIJKLMNOPQRSTUVWXYZ"

LowerCase == "abcdefghijklmnopqrstuvwxyz"

\* char::to_ascii_lowercase
to_ascii_lowercase_char(c) ==
    IF find(UpperCase, c) = NoPos THEN c
    ELSE Slice(LowerCase, find(UpperCase, c), find(UpperCase, c) + 1)

\* str::eq_ignore_ascii_case
eq_ignore_ascii_case(s, t) ==
    /\ Len(s) = Len(t)
    /\ \A i \in 1..Len(s) :
          to_ascii_lowercase_char(SubSeq(s, i, i)) = to_ascii_lowercase_char(SubSeq(t, i, i))

None == [some |-> FALSE]

Some(v) == [some |-> TRUE, value |-> v]

\* str::strip_prefix and str::strip_suffix
strip_prefix(s, t) == IF starts_with(s, t) THEN Some(SliceFrom(s, Len(t))) ELSE None

strip_suffix(s, t) == IF ends_with(s, t) THEN Some(Slice(s, 0, Len(s) - Len(t))) ELSE None

\* HashMap::get: the member of that id
MembersGet(members, id) ==
    IF \E m \in members : m.id = id THEN Some(CHOOSE m \in members : m.id = id) ELSE None

\* what members.values().find(..) can return for the members that satisfy the
\* closure: the order of a HashMap is any, so the first of them is any of them
FindAmong(matching) == IF matching = {} THEN {None} ELSE {Some(m) : m \in matching}

lookup_by_id(members, string) ==
    IF parse_u64(string).ok THEN MembersGet(members, parse_u64(string).value) ELSE None

lookup_by_mention(members, string) ==
    LET prefixed == IF strip_prefix(string, "<@!").some THEN strip_prefix(string, "<@!")
                    ELSE strip_prefix(string, "<@")
    IN  IF ~prefixed.some THEN None
        ELSE IF ~strip_suffix(prefixed.value, ">").some THEN None
        ELSE IF ~parse_u64(strip_suffix(prefixed.value, ">").value).ok THEN None
        ELSE MembersGet(members, parse_u64(strip_suffix(prefixed.value, ">").value).value)

lookup_by_name_and_discrim(members, string) ==
    LET pound_sign == find(string, "#")
    IN  IF pound_sign = NoPos THEN {None}
        ELSE LET name == Slice(string, 0, pound_sign)
                 discrim == parse_u16(SliceFrom(string, pound_sign + 1))
             IN  IF ~discrim.ok THEN {None}
                 ELSE FindAmong({m \in members :
                                    /\ m.discriminator = discrim.value
                                    /\ eq_ignore_ascii_case(m.name, name)})

lookup_by_name(members, string) ==
    FindAmong({m \in members : m.name = string})

lookup_by_nickname(members, string) ==
    FindAmong({m \in members : m.nick.some /\ eq_ignore_ascii_case(m.nick.value, string)})

\* Option::or_else over the results a lookup can have
OrElse(first, second) == IF first = {None} THEN second ELSE first

\* parse_member: the members it can return, or None
parse_member(members, string) ==
    OrElse({lookup_by_id(members, string)},
      OrElse({lookup_by_mention(members, string)},
        OrElse(lookup_by_name_and_discrim(members, string),
          OrElse(lookup_by_name(members, string),
                 lookup_by_nickname(members, string)))))

\* the members a guild is made of: two whose names differ in case only and
\* share a discriminator, one whose nickname is the name of another in upper
\* case, one whose name is a number
MemberPool ==
    { [id |-> 1, name |-> "Ann", discriminator |-> 7, nick |-> None],
      [id |-> 2, name |-> "bob", discriminator |-> 42, nick |-> Some("ANN")],
      [id |-> 3, name |-> "ann", discriminator |-> 7, nick |-> None],
      [id |-> 7, name |-> "42", discriminator |-> 1, nick |-> Some("Bob")] }

Guilds == SUBSET MemberPool

\* what the user names the member by
Queries ==
    {"", "1", "+2", "9", "42", "<@1>", "<@!3>", "<@7", "<@!x>", "Ann", "ANN", "ann",
     "bob", "BOB", "aNN#7", "ann#07", "Ann#8", "Ann#70000", "#7", "carl"}

\* one call of parse_member
ParseMember ==
    /\ pc = "idle"
    /\ \E members \in Guilds, string \in Queries :
          \E found \in parse_member(members, string) :
              /\ call' = [op |-> "parse_member", members |-> members, string |-> string]
              /\ ret' = [op |-> "parse_member", member |-> found]
              /\ effects' = <<>>
              /\ pc' = "done"

NextMod == Cleanup \/ ParseMember

SpecMod == Init /\ [][NextMod]_vars

(***************************************************************************)
(* Properties of the moderation commands.                                  *)
(***************************************************************************)
CleanedUp == pc = "done" /\ call.op = "cleanup"

\* the messages that the invocation deleted
DeletedMessages == {EffectsOf("delete")[i].msg : i \in 1..Len(EffectsOf("delete"))}

\* a message of the bot sent 24 hours or more before the invoking message
OldBotMessage(msg) ==
    msg.author = BotUserId /\ call.timestamp - msg.timestamp >= HoursLimit * 60

\* the invoker has the mod role, or wrote in a direct message
InvokerIsMod == ~call.invoker.some \/ ModRoleId \in call.invoker.roles

\* C13: when the invoker of cleanup is not a mod, no message of the bot that
\* is 24 hours or more older than the invoking message is deleted.
C13_OldMessagesKeptFromNonMods ==
    (CleanedUp /\ ~InvokerIsMod) => \A msg \in DeletedMessages : ~OldBotMessage(msg)

ParsedMember == pc = "done" /\ call.op = "parse_member"

\* the query is the username of a member but for the case of its letters
NamesMemberIgnoringCase ==
    \E m \in call.members : eq_ignore_ascii_case(m.name, call.string)

\* no lookup by id, by mention or by name and discriminator matches
NoEarlierLookupMatches ==
    /\ lookup_by_id(call.members, call.string) = None
    /\ lookup_by_mention(call.members, call.string) = None
    /\ lookup_by_name_and_discrim(call.members, call.string) = {None}

\* C15: for a query that equals the username of a member ignoring the ASCII
\* case, when no lookup by id, by mention or by name and discriminator
\* matches, parse_member returns a member.
C15_NameLookupIgnoresCase ==
    (ParsedMember /\ NamesMemberIgnoringCase /\ NoEarlierLookupMatches) => ret.member.some

(***************************************************************************)
(* The compactness of extract_relevant_lines.                              *)
(***************************************************************************)
\* where the text begins that is kept when the front is cut after the line of
\* position p
CutAfterLineOf(text, p) ==
    IF {j \in Terminators(text) : j >= p} = {} THEN Len(text)
    ELSE Least({j \in Terminators(text) : j >= p}) + 1

\* where the text ends that is kept when the back is cut at the start of the
\* line of position q
CutAtLineOf(text, q) ==
    IF {j \in Terminators(text) : j < q} = {} THEN 0
    ELSE Greatest({j \in Terminators(text) : j < q}) + 1

\* where the kept text can begin: after the line of an occurrence of a start
\* token, or at the start of the text when no start token occurs
FrontCuts(text, tokens) ==
    IF Occurrences(text, tokens) = {} THEN {0}
    ELSE {CutAfterLineOf(text, p) : p \in Occurrences(text, tokens)}

\* where the text kept from position from on can end: at the line of an
\* occurrence of an end token in it, or at the end of the text when no end
\* token occurs in it
BackCuts(text, tokens, from) ==
    IF {q \in Occurrences(text, tokens) : q >= from} = {} THEN {Len(text)}
    ELSE {CutAtLineOf(text, q) : q \in {o \in Occurrences(text, tokens) : o >= from}}

\* C14: no choice of an occurrence of a start token and of an occurrence of an
\* end token in the text after it keeps a region shorter than the one that
\* extract_relevant_lines keeps between its two cuts.
C14_MostCompact ==
    Extracted =>
        \A from \in FrontCuts(call.stderr, call.strip_start_tokens) :
            \A to \in BackCuts(call.stderr, call.strip_end_tokens, from) :
                to >= from => Len(ret.after_end) <= to - from

====
